---- MODULE Spec2Model ----
(***************************************************************************)
(* A model of devito/yask/transformer.py: the translation of Devito       *)
(* expressions into YASK compiler AST nodes (make_yask_ast) and the        *)
(* population of a YASK compiler solution from a batch of iteration trees  *)
(* (yaskizer).                                                             *)
(*                                                                         *)
(* Source expressions and target nodes are records with a fixed set of     *)
(* fields, so that any two of them can be compared.  A target equation     *)
(* node carries in val the number of its creation, which stands for the    *)
(* identity of the Python object.                                          *)
(***************************************************************************)
EXTENDS Integers, Sequences, FiniteSets, TLC

\* ------------------------------------------------------------------ bounds
MaxTrees == 2
MaxExtent == 2
MaxOfs == 1
MaxSub == 2
MaxPow == 3
MaxCalls == 3

\* ------------------------------------------------- source expressions (sympy)
E(kind, name, val, args) == [kind |-> kind, name |-> name, val |-> val, args |-> args]

Integer(n) == E("Integer", "", n, <<>>)
Rational(a, b) == E("Rational", "", a, <<Integer(b)>>)
Symbol(name) == E("Symbol", name, 0, <<>>)
Indexed(name, indices) == E("Indexed", name, 0, indices)
Add(args) == E("Add", "", 0, args)
Mul(args) == E("Mul", "", 0, args)
Pow(base, exp) == E("Pow", "", 0, <<base, exp>>)
Equality(lhs, rhs) == E("Equality", "", 0, <<lhs, rhs>>)
\* an index of an Indexed: a dimension plus an integer shift, or a LoweredDimension
Affine(dim, shift) == E("Affine", dim, shift, <<>>)
Lowered(origin) == E("Lowered", "", 0, <<origin>>)
\* an expression kind without a handler
Unhandled(name) == E("Function", name, 0, <<>>)
\* no expression yet
NoExpr == E("None", "", 0, <<>>)

\* The functions behind the symbols: Constant, Dimension (time, space, other,
\* derived from a parent) and everything else (arrays, DSE temporaries).
ConstantFunctions == {"c"}
TimeDims == {"t"}
SpaceDims == {"x", "y", "xi"}
MiscDims == {"m"}
Dimensions == TimeDims \cup SpaceDims \cup MiscDims
Temporaries == {"r0", "r1"}
Arrays == {"u", "v"}

DimParent(d) == IF d = "xi" THEN "x" ELSE d

FunctionIndices(f) ==
    IF f = "u" THEN <<Symbol("t"), Symbol("x")>> ELSE <<Symbol("x"), Symbol("m")>>

\* ------------------------------------------------------ target nodes (YASK)
N(op, name, val, args) == [op |-> op, name |-> name, val |-> val, args |-> args]

None == N("None", "", 0, <<>>)

new_const_number_node(n) == N("const", "", n, <<>>)
new_const_ratio_node(a, b) == N("const", "float", a, <<new_const_number_node(b)>>)
new_step_index(name) == N("step_index", name, 0, <<>>)
new_domain_index(name) == N("domain_index", name, 0, <<>>)
new_misc_index(name) == N("misc_index", name, 0, <<>>)
new_first_domain_index(ydim) == N("first_domain_index", ydim.name, 0, <<>>)
new_last_domain_index(ydim) == N("last_domain_index", ydim.name, 0, <<>>)
new_add_node(a, b) == N("add", "", 0, <<a, b>>)
new_multiply_node(a, b) == N("multiply", "", 0, <<a, b>>)
new_divide_node(a, b) == N("divide", "", 0, <<a, b>>)
new_not_less_than_node(a, b) == N("not_less_than", "", 0, <<a, b>>)
new_not_greater_than_node(a, b) == N("not_greater_than", "", 0, <<a, b>>)
new_equals_node(a, b) == N("equals", "", 0, <<a, b>>)
new_and_node(a, b) == N("and", "", 0, <<a, b>>)
new_equation_node(id, lhs, rhs) == N("equation", "", id, <<lhs, rhs>>)
new_grid_point(grid, indices) == N("grid_point", grid.name, 0, indices)
Grid(name, dims) == N("grid", name, 0, dims)

BinaryOp(op, a, b) ==
    IF op = "add" THEN new_add_node(a, b) ELSE new_multiply_node(a, b)

\* ------------------------------------------------- the YASK compiler solution
EmptySolution ==
    [grids |-> <<>>, neq |-> 0, conds |-> <<>>, deps |-> <<>>, checker |-> TRUE]

new_grid(yc_soln, name, dims) ==
    [yc_soln EXCEPT !.grids = Append(@, Grid(name, dims))]

\* ------------------------------------------------------------ make_yask_ast
\* The result of a call: the returned node (None when nothing is returned),
\* the exception that left the call ("none" when it returned), and the
\* solution and the registry as the call left them (both are mutated in place).
Ret(node, yc_soln, mapper) ==
    [ret |-> node, err |-> "none", yc_soln |-> yc_soln, mapper |-> mapper]

Raise(exc, yc_soln, mapper) ==
    [ret |-> None, err |-> exc, yc_soln |-> yc_soln, mapper |-> mapper]

Store(mapper, function, value) ==
    [f \in DOMAIN mapper \cup {function} |->
        IF f = function THEN value ELSE mapper[f]]

\* sympy's Pow.as_numer_denom for a negative integer exponent
as_numer_denom(expr) ==
    LET base == expr.args[1]
        e == expr.args[2].val
    IN  [num |-> Integer(1),
         den |-> IF e = -1 THEN base ELSE Pow(base, Integer(-e))]

\* one factor too many
CopiesOneMore(base, exp) == [i \in 1..(exp + 1) |-> base]

\* [base] * exp
Copies(base, exp) == [i \in 1..exp |-> base]

\* split_affine and the choice of the parent dimension, then dim + shift
MainDimPlusShift(i) ==
    LET dim == DimParent(i.name)
    IN  IF i.val = 0 THEN Symbol(dim) ELSE Add(<<Integer(i.val), Symbol(dim)>>)

RECURSIVE make_yask_ast(_, _, _)
RECURSIVE nary2binary(_, _, _, _)
RECURSIVE translate_all(_, _, _)
RECURSIVE translate_indices(_, _, _)

nary2binary(args, op, yc_soln, mapper) ==
    LET r == make_yask_ast(args[1], yc_soln, mapper)
    IN  IF r.err # "none" \/ Len(args) = 1 THEN r
        ELSE LET rest == nary2binary(Tail(args), op, r.yc_soln, r.mapper)
             IN  IF rest.err # "none" THEN rest
                 ELSE Ret(BinaryOp(op, r.ret, rest.ret), rest.yc_soln, rest.mapper)

\* [make_yask_ast(i, yc_soln, mapper) for i in exprs]; ret.args is the list
translate_all(exprs, yc_soln, mapper) ==
    IF exprs = <<>> THEN Ret(N("list", "", 0, <<>>), yc_soln, mapper)
    ELSE LET r == make_yask_ast(exprs[1], yc_soln, mapper)
         IN  IF r.err # "none" THEN r
             ELSE LET rest == translate_all(Tail(exprs), r.yc_soln, r.mapper)
                  IN  IF rest.err # "none" THEN rest
                      ELSE Ret(N("list", "", 0, <<r.ret>> \o rest.ret.args),
                               rest.yc_soln, rest.mapper)

IndexExpr(i) ==
    IF i.kind = "Lowered" THEN i.args[1]
    ELSE IF i.kind = "Integer" THEN i
    ELSE MainDimPlusShift(i)

translate_indices(indices, yc_soln, mapper) ==
    translate_all([k \in 1..Len(indices) |-> IndexExpr(indices[k])], yc_soln, mapper)

\* a Constant gets a new grid at every reference
SymbolCaseNewGrid(expr, yc_soln, mapper) ==
    LET function == expr.name
    IN  IF function \in ConstantFunctions THEN
            LET soln2 == new_grid(yc_soln, function, <<>>)
                map2 == Store(mapper, function, Grid(function, <<>>))
            IN  Ret(new_grid_point(map2[function], <<>>), soln2, map2)
        ELSE IF function \in Dimensions THEN
            IF function \in TimeDims THEN Ret(new_step_index(function), yc_soln, mapper)
            ELSE IF function \in SpaceDims
                 THEN Ret(new_domain_index(function), yc_soln, mapper)
                 ELSE Ret(new_misc_index(function), yc_soln, mapper)
        ELSE IF function \in DOMAIN mapper
             THEN Ret(mapper[function], yc_soln, mapper)
             ELSE Raise("AssertionError", yc_soln, mapper)

SymbolCase(expr, yc_soln, mapper) ==
    LET function == expr.name
    IN  IF function \in ConstantFunctions THEN
            IF function \notin DOMAIN mapper
            THEN LET soln2 == new_grid(yc_soln, function, <<>>)
                     map2 == Store(mapper, function, Grid(function, <<>>))
                 IN  Ret(new_grid_point(map2[function], <<>>), soln2, map2)
            ELSE Ret(new_grid_point(mapper[function], <<>>), yc_soln, mapper)
        ELSE IF function \in Dimensions THEN
            IF function \in TimeDims THEN Ret(new_step_index(function), yc_soln, mapper)
            ELSE IF function \in SpaceDims
                 THEN Ret(new_domain_index(function), yc_soln, mapper)
                 ELSE Ret(new_misc_index(function), yc_soln, mapper)
        ELSE IF function \in DOMAIN mapper
             THEN Ret(mapper[function], yc_soln, mapper)
             ELSE Raise("AssertionError", yc_soln, mapper)

IndexedCase(expr, yc_soln, mapper) ==
    LET function == expr.name
        g == IF function \in DOMAIN mapper THEN Ret(None, yc_soln, mapper)
             ELSE LET d == translate_all(FunctionIndices(function), yc_soln, mapper)
                  IN  IF d.err # "none" THEN d
                      ELSE Ret(None, new_grid(d.yc_soln, function, d.ret.args),
                               Store(d.mapper, function, Grid(function, d.ret.args)))
    IN  IF g.err # "none" THEN g
        ELSE LET ix == translate_indices(expr.args, g.yc_soln, g.mapper)
             IN  IF ix.err # "none" THEN ix
                 ELSE Ret(new_grid_point(ix.mapper[function], ix.ret.args),
                          ix.yc_soln, ix.mapper)

PowCase(expr, yc_soln, mapper) ==
    LET base == expr.args[1]
        exp == expr.args[2]
    IN  IF exp.kind # "Integer" THEN Raise("NotImplementedError", yc_soln, mapper)
        ELSE IF exp.val < 0 THEN
            LET nd == as_numer_denom(expr)
                num == make_yask_ast(nd.num, yc_soln, mapper)
            IN  IF num.err # "none" THEN num
                ELSE LET den == make_yask_ast(nd.den, num.yc_soln, num.mapper)
                     IN  IF den.err # "none" THEN den
                         ELSE Ret(new_divide_node(num.ret, den.ret),
                                  den.yc_soln, den.mapper)
        ELSE IF exp.val >= 1 THEN
            nary2binary(Copies(base, exp.val), "multiply", yc_soln, mapper)
        ELSE Ret(new_const_number_node(1), yc_soln, mapper)

\* a binding without the assertion of line 176
EqualityCaseRebind(expr, yc_soln, mapper) ==
    LET lhs == expr.args[1]
        rhs == expr.args[2]
    IN  IF lhs.kind = "Symbol" THEN
            LET r == make_yask_ast(rhs, yc_soln, mapper)
            IN  IF r.err # "none" THEN r
                ELSE Ret(None, r.yc_soln, Store(r.mapper, lhs.name, r.ret))
        ELSE LET r == translate_all(expr.args, yc_soln, mapper)
             IN  IF r.err # "none" THEN r
                 ELSE LET id == r.yc_soln.neq + 1
                      IN  Ret(new_equation_node(id, r.ret.args[1], r.ret.args[2]),
                              [r.yc_soln EXCEPT !.neq = id], r.mapper)

EqualityCase(expr, yc_soln, mapper) ==
    LET lhs == expr.args[1]
        rhs == expr.args[2]
    IN  IF lhs.kind = "Symbol" THEN
            LET function == lhs.name
            IN  IF function \in DOMAIN mapper
                THEN Raise("AssertionError", yc_soln, mapper)
                ELSE LET r == make_yask_ast(rhs, yc_soln, mapper)
                     IN  IF r.err # "none" THEN r
                         ELSE Ret(None, r.yc_soln, Store(r.mapper, function, r.ret))
        ELSE LET r == translate_all(expr.args, yc_soln, mapper)
             IN  IF r.err # "none" THEN r
                 ELSE LET id == r.yc_soln.neq + 1
                      IN  Ret(new_equation_node(id, r.ret.args[1], r.ret.args[2]),
                              [r.yc_soln EXCEPT !.neq = id], r.mapper)

make_yask_ast(expr, yc_soln, mapper) ==
    CASE expr.kind = "Integer" -> Ret(new_const_number_node(expr.val), yc_soln, mapper)
      [] expr.kind = "Rational" ->
            Ret(new_const_ratio_node(expr.val, expr.args[1].val), yc_soln, mapper)
      [] expr.kind = "Symbol" -> SymbolCase(expr, yc_soln, mapper)
      [] expr.kind = "Indexed" -> IndexedCase(expr, yc_soln, mapper)
      [] expr.kind = "Add" -> nary2binary(expr.args, "add", yc_soln, mapper)
      [] expr.kind = "Mul" -> nary2binary(expr.args, "multiply", yc_soln, mapper)
      [] expr.kind = "Pow" -> PowCase(expr, yc_soln, mapper)
      [] expr.kind = "Equality" -> EqualityCase(expr, yc_soln, mapper)
      [] OTHER -> Raise("NotImplementedError", yc_soln, mapper)

\* ------------------------------------------------------------ iteration trees
Iteration(sub, parent, static, lower, upper, sequential, extent, direction) ==
    [is_Sub |-> sub, parent |-> parent, static |-> static, lower |-> lower,
     upper |-> upper, is_Sequential |-> sequential, extent |-> extent,
     direction |-> direction]

\* extent 0 stands for an extent that is not statically known
TimeIter == Iteration(FALSE, "t", FALSE, 0, 0, TRUE, 0, "Forward")
StaticIter(p, l) == Iteration(TRUE, p, TRUE, l, -l, FALSE, 0, "Any")
SequentialIter(p, extent, d) == Iteration(TRUE, p, FALSE, 0, 0, TRUE, extent, d)
ParallelIter(p, extent) == Iteration(TRUE, p, FALSE, 0, 0, FALSE, extent, "Any")

Axes == <<"x", "y", "z", "w">>

EqU ==
    Equality(Indexed("u", <<Affine("t", 1), Symbol("x")>>),
             Add(<<Indexed("u", <<Symbol("t"), Affine("xi", 1)>>), Symbol("c")>>))
EqV ==
    Equality(Indexed("v", <<Lowered(Symbol("x")), Integer(0)>>),
             Mul(<<Integer(2), Indexed("u", <<Symbol("t"), Symbol("x")>>)>>))
BindR0 == Equality(Symbol("r0"), Pow(Symbol("c"), Integer(2)))
UseR0 == Equality(Indexed("v", <<Symbol("x"), Symbol("m")>>), Symbol("r0"))
EqBad == Equality(Indexed("u", <<Symbol("t"), Symbol("x")>>), Unhandled("sin"))

Tree(iters, exprs) == [iters |-> iters, exprs |-> exprs]

StaticLists(offsets) ==
    {[j \in 1..k |-> StaticIter(Axes[j], l)] : k \in 1..MaxSub, l \in offsets}

\* the trees of a batch are drawn from these
Trees ==
    {Tree(<<TimeIter>>, es) :
        es \in {<<EqU>>, <<EqU, EqV>>, <<BindR0, UseR0>>, <<UseR0>>, <<EqBad>>}}
    \cup {Tree(<<TimeIter>> \o st, <<BindR0, UseR0>>) : st \in StaticLists({0, MaxOfs})}
    \cup {Tree(<<TimeIter>> \o st, <<EqU>>) : st \in StaticLists({0})}
    \cup {Tree(<<TimeIter, SequentialIter("x", ext, d)>>, es) :
            ext \in {1, MaxExtent}, d \in {"Forward", "Backward"},
            es \in {<<EqU, EqV>>, <<BindR0, UseR0>>}}
    \cup {Tree(<<TimeIter, SequentialIter("x", MaxExtent, d)>>, <<EqU>>) :
            d \in {"Forward", "Backward"}}
    \cup {Tree(<<TimeIter, StaticIter("x", 0), SequentialIter("y", MaxExtent, d)>>,
               <<EqU>>) : d \in {"Forward", "Backward"}}
    \cup {Tree(<<TimeIter, it>>, <<EqU>>) :
            it \in {SequentialIter("x", 0, "Forward"), SequentialIter("x", 1, "Any"),
                    ParallelIter("x", 0), ParallelIter("x", 1)}}

\* ----------------------------------------------------------------- yaskizer
VARIABLES pc, trees, ii, conditions, ci, mapper, processed, yc_soln, emitted,
          err, site, returned

VARIABLES calls, ast_soln, ast_mapper, last_expr, last

yask_vars == <<pc, trees, ii, conditions, ci, mapper, processed, yc_soln, emitted,
               err, site, returned>>
ast_vars == <<calls, ast_soln, ast_mapper, last_expr, last>>
vars == <<yask_vars, ast_vars>>

NoRegistry == "no registry"

tree == trees[Len(trees)]

YaskInit ==
    /\ pc = "tree"
    /\ trees = <<>>
    /\ ii = 0
    /\ conditions = <<>>
    /\ ci = 0
    /\ mapper = << >>
    /\ processed = <<>>
    /\ yc_soln = [EmptySolution EXCEPT !.checker = FALSE]
    /\ emitted = <<>>
    /\ err = "none"
    /\ site = "none"
    /\ returned = NoRegistry

\* the loop header of line 29 and lines 31-34
StartTree(t) ==
    /\ pc = "tree"
    /\ Len(trees) < MaxTrees
    /\ trees' = Append(trees, t)
    /\ conditions' = [k \in 1..Len(t.exprs) |-> [e |-> t.exprs[k], v |-> <<>>]]
    /\ ii' = 1
    /\ ci' = 0
    /\ pc' = "cond"
    /\ UNCHANGED <<mapper, processed, yc_soln, emitted, err, site, returned,
                   ast_vars>>

\* the end of one pass of the loop of line 35
NextIteration ==
    /\ ii' = ii + 1
    /\ IF ii = Len(tree.iters) THEN pc' = "build" /\ ci' = 1
                               ELSE pc' = "cond" /\ ci' = ci

FailIn(where, exc) ==
    /\ pc' = "failed"
    /\ err' = exc
    /\ site' = where

\* lines 36-37
SkipIteration ==
    /\ pc = "cond"
    /\ ~tree.iters[ii].is_Sub
    /\ NextIteration
    /\ UNCHANGED <<trees, conditions, mapper, processed, yc_soln, emitted, err, site,
                   returned,
                   ast_vars>>

\* lines 47-52
StaticConditions(i) ==
    LET ydim == new_domain_index(i.parent)
        lower == new_const_number_node(i.lower)
        upper == new_const_number_node(i.upper)
    IN  <<new_not_less_than_node(ydim, new_add_node(new_first_domain_index(ydim), lower)),
          new_not_greater_than_node(ydim, new_add_node(new_last_domain_index(ydim), upper))>>

AttachBounds ==
    /\ pc = "cond"
    /\ tree.iters[ii].is_Sub
    /\ tree.iters[ii].static
    /\ conditions' = [k \in 1..Len(conditions) |->
                        [conditions[k] EXCEPT !.v = @ \o StaticConditions(tree.iters[ii])]]
    /\ NextIteration
    /\ UNCHANGED <<trees, mapper, processed, yc_soln, emitted, err, site, returned,
                   ast_vars>>

\* lines 59-64: the offsets, in the order in which they are visited
UnwindRange(direction, extent) ==
    IF direction = "Backward" THEN [r \in 1..extent |-> extent - r]
                              ELSE [r \in 1..extent |-> r - extent]

\* the edges taken the other way round
UnwindNodeSwapped(direction, ydim) ==
    IF direction = "Backward" THEN new_last_domain_index(ydim)
                              ELSE new_first_domain_index(ydim)

UnwindNode(direction, ydim) ==
    IF direction = "Backward" THEN new_first_domain_index(ydim)
                              ELSE new_last_domain_index(ydim)

\* reversed(range(extent)) is an iterator, which the first pass of the loop of
\* line 69 exhausts; range(-extent + 1, 1) can be iterated again
RangeAt(direction, extent, k) ==
    IF direction = "Backward" /\ k > 1 THEN <<>> ELSE UnwindRange(direction, extent)

RECURSIVE Flatten(_)
Flatten(lists) ==
    IF lists = <<>> THEN <<>> ELSE lists[1] \o Flatten(Tail(lists))

\* lines 68-74
Unwinded(conds, i) ==
    LET ydim == new_domain_index(i.parent)
        node == UnwindNode(i.direction, ydim)
        replicas(k) ==
            LET rng == RangeAt(i.direction, i.extent, k)
            IN  [r \in 1..Len(rng) |->
                    [e |-> conds[k].e,
                     v |-> Append(conds[k].v,
                                  new_equals_node(ydim,
                                      new_add_node(node, new_const_number_node(rng[r]))))]]
    IN  Flatten([k \in 1..Len(conds) |-> replicas(k)])

Unwind ==
    /\ pc = "cond"
    /\ tree.iters[ii].is_Sub
    /\ ~tree.iters[ii].static
    /\ tree.iters[ii].is_Sequential
    /\ tree.iters[ii].extent > 0
    /\ tree.iters[ii].direction \in {"Forward", "Backward"}
    /\ conditions' = Unwinded(conditions, tree.iters[ii])
    /\ NextIteration
    /\ UNCHANGED <<trees, mapper, processed, yc_soln, emitted, err, site, returned,
                   ast_vars>>

\* line 57: i.extent() of an extent that is not statically known
FailExtent ==
    /\ pc = "cond"
    /\ tree.iters[ii].is_Sub
    /\ ~tree.iters[ii].static
    /\ tree.iters[ii].is_Sequential
    /\ tree.iters[ii].extent = 0
    /\ FailIn("cond", "TypeError")
    /\ UNCHANGED <<trees, ii, conditions, ci, mapper, processed, yc_soln, emitted,
                   returned,
                   ast_vars>>

\* lines 65-66
FailDirection ==
    /\ pc = "cond"
    /\ tree.iters[ii].is_Sub
    /\ ~tree.iters[ii].static
    /\ tree.iters[ii].is_Sequential
    /\ tree.iters[ii].extent > 0
    /\ tree.iters[ii].direction \notin {"Forward", "Backward"}
    /\ FailIn("cond", "AssertionError")
    /\ UNCHANGED <<trees, ii, conditions, ci, mapper, processed, yc_soln, emitted,
                   returned,
                   ast_vars>>

\* a parallel iteration of unknown offsets passed over
FailParallelSkipped ==
    /\ pc = "cond"
    /\ tree.iters[ii].is_Sub
    /\ ~tree.iters[ii].static
    /\ ~tree.iters[ii].is_Sequential
    /\ NextIteration
    /\ UNCHANGED <<trees, conditions, mapper, processed, yc_soln, emitted, err, site,
                   returned, ast_vars>>

\* lines 75-78
FailParallel ==
    /\ pc = "cond"
    /\ tree.iters[ii].is_Sub
    /\ ~tree.iters[ii].static
    /\ ~tree.iters[ii].is_Sequential
    /\ FailIn("cond", "NotImplementedError")
    /\ UNCHANGED <<trees, ii, conditions, ci, mapper, processed, yc_soln, emitted,
                   returned,
                   ast_vars>>

\* the conjunction folded from the right
RECURSIVE ConjoinRight(_, _)
ConjoinRight(condition, v) ==
    IF v = <<>> THEN condition ELSE new_and_node(condition, ConjoinRight(v[1], Tail(v)))

\* lines 89-91
RECURSIVE Conjoin(_, _)
Conjoin(condition, v) ==
    IF v = <<>> THEN condition ELSE Conjoin(new_and_node(condition, v[1]), Tail(v))

set_cond(soln, yask_expr, condition) ==
    [soln EXCEPT !.conds = Append(@, [eq |-> yask_expr.val, cond |-> condition])]

\* the end of one pass of the loop of line 81
NextCondition ==
    /\ ci' = ci + 1
    /\ pc' = IF ci >= Len(conditions) THEN "tree" ELSE "build"

Translated == make_yask_ast(conditions[ci].e, yc_soln, mapper)

\* the flow dependency registered as soon as the equation is appended
BuildEquationEagerDeps ==
    /\ pc = "build"
    /\ ci <= Len(conditions)
    /\ LET r == Translated
           v == conditions[ci].v
           guarded == IF v # <<>> THEN set_cond(r.yc_soln, r.ret, Conjoin(v[1], Tail(v)))
                                  ELSE r.yc_soln
       IN  /\ r.err = "none"
           /\ r.ret # None
           /\ mapper' = r.mapper
           /\ processed' = Append(processed, r.ret)
           /\ yc_soln' = IF processed = <<>> THEN guarded
                          ELSE [guarded EXCEPT !.deps =
                                  Append(@, [from |-> r.ret,
                                             to |-> processed[Len(processed)]])]
           /\ emitted' = Append(emitted, [tree |-> Len(trees), e |-> conditions[ci].e,
                                          ret |-> r.ret])
    /\ NextCondition
    /\ UNCHANGED <<trees, ii, conditions, err, site, returned, ast_vars>>

\* lines 82-92, the expression is translated to a node
BuildEquation ==
    /\ pc = "build"
    /\ ci <= Len(conditions)
    /\ LET r == Translated
           v == conditions[ci].v
       IN  /\ r.err = "none"
           /\ r.ret # None
           /\ mapper' = r.mapper
           /\ processed' = Append(processed, r.ret)
           /\ yc_soln' = IF v # <<>> THEN set_cond(r.yc_soln, r.ret, Conjoin(v[1], Tail(v)))
                                     ELSE r.yc_soln
           /\ emitted' = Append(emitted, [tree |-> Len(trees), e |-> conditions[ci].e,
                                          ret |-> r.ret])
    /\ NextCondition
    /\ UNCHANGED <<trees, ii, conditions, err, site, returned,
                   ast_vars>>

\* lines 82-84, the expression is a local binding
BuildBinding ==
    /\ pc = "build"
    /\ ci <= Len(conditions)
    /\ LET r == Translated
       IN  /\ r.err = "none"
           /\ r.ret = None
           /\ mapper' = r.mapper
           /\ yc_soln' = r.yc_soln
           /\ emitted' = Append(emitted, [tree |-> Len(trees), e |-> conditions[ci].e,
                                          ret |-> None])
    /\ NextCondition
    /\ UNCHANGED <<trees, ii, conditions, processed, err, site, returned,
                   ast_vars>>

\* line 82, make_yask_ast raises
BuildFail ==
    /\ pc = "build"
    /\ ci <= Len(conditions)
    /\ LET r == Translated
       IN  /\ r.err # "none"
           /\ mapper' = r.mapper
           /\ yc_soln' = r.yc_soln
           /\ FailIn("build", r.err)
    /\ UNCHANGED <<trees, ii, conditions, ci, processed, emitted, returned,
                   ast_vars>>

\* the two arguments of add_flow_dependency exchanged
FlowDependenciesSwapped(done) ==
    [k \in 1..(Len(done) - 1) |-> [from |-> done[k], to |-> done[k + 1]]]

\* lines 96-97
FlowDependencies(done) ==
    [k \in 1..(Len(done) - 1) |-> [from |-> done[k + 1], to |-> done[k]]]

\* lines 94-99, once the batch is exhausted
FlowDeps ==
    /\ pc = "tree"
    /\ yc_soln' = [yc_soln EXCEPT !.deps = @ \o FlowDependencies(processed)]
    /\ returned' = mapper
    /\ pc' = "done"
    /\ UNCHANGED <<trees, ii, conditions, ci, mapper, processed, emitted, err, site,
                   ast_vars>>

AstIdle ==
    /\ calls = 0
    /\ ast_soln = EmptySolution
    /\ ast_mapper = << >>
    /\ last_expr = NoExpr
    /\ last = Ret(None, EmptySolution, << >>)

Init == YaskInit /\ AstIdle

Next ==
    \/ \E t \in Trees : StartTree(t)
    \/ SkipIteration
    \/ AttachBounds
    \/ Unwind
    \/ FailExtent
    \/ FailDirection
    \/ FailParallel
    \/ BuildEquation
    \/ BuildBinding
    \/ BuildFail
    \/ FlowDeps

Spec == Init /\ [][Next]_vars

\* ------------------------------------- a sequence of calls on one registry
PowBases == {Symbol("x"), Symbol("c"), Symbol("r0")}

PowInputs ==
    {Pow(b, Integer(e)) : b \in PowBases, e \in (-MaxPow)..MaxPow}
        \cup {Pow(b, Rational(1, 2)) : b \in PowBases}

AstInputs ==
    PowInputs
        \cup {Symbol(r) : r \in Temporaries}
        \cup {Equality(Symbol("r0"), Integer(1)),
              Equality(Symbol("r0"), Indexed("u", <<Symbol("t"), Affine("xi", 1)>>)),
              Equality(Symbol("r1"), Add(<<Integer(2), Symbol("r0")>>)),
              Equality(Symbol("r1"), Symbol("r1")),
              Equality(Indexed("v", <<Lowered(Symbol("x")), Integer(0)>>),
                       Mul(<<Symbol("c"), Symbol("r0"), Symbol("r1")>>)),
              Unhandled("sin")}

Translate(expr) ==
    /\ calls < MaxCalls
    /\ calls' = calls + 1
    /\ last_expr' = expr
    /\ last' = make_yask_ast(expr, ast_soln, ast_mapper)
    /\ ast_soln' = last'.yc_soln
    /\ ast_mapper' = last'.mapper
    /\ UNCHANGED yask_vars

AstNext == \E expr \in AstInputs : Translate(expr)

SpecAst == Init /\ [][AstNext]_vars

\* ------------------------------------------------------------- the claims
N_processed == Len(processed)

ReturnedNodes == SelectSeq(emitted, LAMBDA m : m.ret # None)

\* the sub-region iterations of a tree, in order
SubIterations(t) == SelectSeq(t.iters, LAMBDA i : i.is_Sub)

IsUnwound(i) ==
    /\ i.is_Sub /\ ~i.static /\ i.is_Sequential /\ i.extent > 0
    /\ i.direction \in {"Forward", "Backward"}

\* a tree under exactly one sequential sub-region iteration of known extent
SingleSequential(t) ==
    /\ Len(SubIterations(t)) = 1
    /\ IsUnwound(SubIterations(t)[1])

IsBinding(e) == e.kind = "Equality" /\ e.args[1].kind = "Symbol"

\* the guards set on an equation node
GuardsOf(eq) == {q \in 1..Len(yc_soln.conds) : yc_soln.conds[q].eq = eq.val}

\* C1 (as amended): processed holds the nodes make_yask_ast returned, in the
\* order of emission, bindings left out; no flow dependency is registered
\* before the last expression was translated; at the end there are exactly
\* N-1 of them (none when N <= 1), the k-th with equation k+1 as its 'from'
\* argument and equation k as its 'to' argument.
C1_FlowDependencies ==
    /\ Len(ReturnedNodes) = N_processed
    /\ \A k \in 1..N_processed : processed[k] = ReturnedNodes[k].ret
    /\ \A k, l \in 1..N_processed : k # l => processed[k] # processed[l]
    /\ pc # "done" => yc_soln.deps = <<>>
    /\ pc = "done" =>
        /\ Len(yc_soln.deps) = (IF N_processed <= 1 THEN 0 ELSE N_processed - 1)
        /\ \A k \in 1..Len(yc_soln.deps) :
              /\ yc_soln.deps[k].from = processed[k + 1]
              /\ yc_soln.deps[k].to = processed[k]

\* C1 as stated: equation k is the 'from' side and equation k+1 the 'to' side.
C1_Original ==
    pc = "done" =>
        /\ Len(yc_soln.deps) = (IF N_processed <= 1 THEN 0 ELSE N_processed - 1)
        /\ \A k \in 1..Len(yc_soln.deps) :
              /\ yc_soln.deps[k].from = processed[k]
              /\ yc_soln.deps[k].to = processed[k + 1]

C1_Witness ==
    /\ pc = "done"
    /\ N_processed >= 3
    /\ Len(yc_soln.deps) = N_processed - 1
    /\ \E k \in 1..Len(emitted) : emitted[k].ret = None

\* The state in which line 74 has just rebound conditions for a tree under one
\* sequential sub-region iteration: the translation loop has not started.
JustUnwound ==
    /\ pc = "build"
    /\ ci = 1
    /\ SingleSequential(tree)

Replicas(e) == {p \in 1..Len(conditions) : conditions[p].e = e}

\* the equations emitted for expression e of the current tree
EmittedFor(e) ==
    {m \in 1..Len(emitted) : emitted[m].tree = Len(trees) /\ emitted[m].e = e}

\* C2: under one sequential sub-region iteration of extent E and no static
\* offsets, in either direction, each of the n equations of the tree is
\* replicated exactly E times (n*E pairs in all), with E distinct equality
\* guards, which end up on E distinct equation nodes.
C2_Replication ==
    /\ (JustUnwound /\ \A k \in 1..Len(tree.exprs) : ~IsBinding(tree.exprs[k])) =>
          LET extent == SubIterations(tree)[1].extent
          IN  /\ Len(conditions) = Len(tree.exprs) * extent
              /\ \A k \in 1..Len(tree.exprs) :
                    /\ Cardinality(Replicas(tree.exprs[k])) = extent
                    /\ Cardinality({conditions[p].v : p \in Replicas(tree.exprs[k])})
                          = extent
    /\ (/\ pc \in {"tree", "done"}
        /\ trees # <<>>
        /\ SingleSequential(tree)
        /\ \A k \in 1..Len(tree.exprs) : ~IsBinding(tree.exprs[k])) =>
          LET extent == SubIterations(tree)[1].extent
          IN  \A k \in 1..Len(tree.exprs) :
                LET ms == EmittedFor(tree.exprs[k])
                IN  /\ Cardinality(ms) = extent
                    /\ Cardinality({emitted[m].ret : m \in ms}) = extent
                    /\ Cardinality(UNION {{yc_soln.conds[q].cond :
                                              q \in GuardsOf(emitted[m].ret)} :
                                          m \in ms}) = extent

EdgeGuard(ydim, edge, offset) ==
    new_equals_node(ydim, new_add_node(edge, new_const_number_node(offset)))

\* C8 (as amended): the replicas of an expression carry, in the order of
\* emission, the guards ydim == first domain index + (E-1), ..., + 0 when the
\* direction is Backward, and ydim == last domain index + -(E-1), ..., + 0 when
\* it is Forward; the first expression of the tree always has its E replicas.
C8_Orientation ==
    JustUnwound =>
        LET i == SubIterations(tree)[1]
            ydim == new_domain_index(i.parent)
            first == N("first_domain_index", i.parent, 0, <<>>)
            last_ == N("last_domain_index", i.parent, 0, <<>>)
            r(p) == ((p - 1) % i.extent) + 1
        IN  /\ Len(conditions) >= i.extent
            /\ \A p \in 1..i.extent : conditions[p].e = tree.exprs[1]
            /\ \A p \in 1..Len(conditions) :
                  conditions[p].v =
                      IF i.direction = "Backward"
                      THEN <<EdgeGuard(ydim, first, i.extent - r(p))>>
                      ELSE <<EdgeGuard(ydim, last_, r(p) - i.extent)>>

\* C8 as stated: Backward counts from the last domain index, 0, -1, ..., -(E-1);
\* Forward counts from the first domain index, 0, 1, ..., E-1.
C8_Original ==
    JustUnwound =>
        LET i == SubIterations(tree)[1]
            ydim == new_domain_index(i.parent)
            first == N("first_domain_index", i.parent, 0, <<>>)
            last_ == N("last_domain_index", i.parent, 0, <<>>)
            r(p) == ((p - 1) % i.extent) + 1
        IN  \A p \in 1..Len(conditions) :
                conditions[p].v =
                    IF i.direction = "Backward"
                    THEN <<EdgeGuard(ydim, last_, -(r(p) - 1))>>
                    ELSE <<EdgeGuard(ydim, first, r(p) - 1)>>

C8_Witness ==
    /\ JustUnwound
    /\ SubIterations(tree)[1].extent >= 2
    /\ SubIterations(tree)[1].direction = "Backward"
    /\ Len(tree.exprs) >= 2

AllStatic(t) ==
    /\ SubIterations(t) # <<>>
    /\ \A j \in 1..Len(SubIterations(t)) : SubIterations(t)[j].static

\* the comparison nodes the sub-region iterations of a tree call for, in order
ExpectedComparisons(t) ==
    LET subs == SubIterations(t)
        cmp(q) ==
            LET i == subs[(q + 1) \div 2]
                ydim == N("domain_index", i.parent, 0, <<>>)
                first == N("first_domain_index", i.parent, 0, <<>>)
                last_ == N("last_domain_index", i.parent, 0, <<>>)
            IN  IF q % 2 = 1
                THEN N("not_less_than", "", 0,
                       <<ydim, N("add", "", 0, <<first, N("const", "", i.lower, <<>>)>>)>>)
                ELSE N("not_greater_than", "", 0,
                       <<ydim, N("add", "", 0, <<last_, N("const", "", i.upper, <<>>)>>)>>)
    IN  [q \in 1..(2 * Len(subs)) |-> cmp(q)]

\* node is ((list[1] and list[2]) and ...) and list[n]
RECURSIVE IsLeftConjunction(_, _, _)
IsLeftConjunction(node, list, n) ==
    IF n = 1 THEN node = list[1]
    ELSE /\ node.op = "and"
         /\ node.args[2] = list[n]
         /\ IsLeftConjunction(node.args[1], list, n - 1)

RECURSIVE CountOp(_, _)
CountOp(node, op) ==
    LET below[k \in 0..Len(node.args)] ==
            IF k = 0 THEN 0 ELSE below[k - 1] + CountOp(node.args[k], op)
    IN  (IF node.op = op THEN 1 ELSE 0) + below[Len(node.args)]

\* C4: under k >= 1 sub-region iterations of statically known offsets, every
\* expression translated to a node has exactly one guard, the left-to-right
\* conjunction (2k-1 'and' nodes) of the 2k comparisons, per iteration 'not
\* less than first + lower' before 'not greater than last + upper'; without a
\* sub-region iteration no guard is attached.
C4_StaticGuard ==
    \A m \in 1..Len(emitted) :
        emitted[m].ret # None =>
            LET t == trees[emitted[m].tree]
                k == Len(SubIterations(t))
                g == GuardsOf(emitted[m].ret)
            IN  /\ AllStatic(t) =>
                    /\ Cardinality(g) = 1
                    /\ \A q \in g :
                          /\ IsLeftConjunction(yc_soln.conds[q].cond,
                                               ExpectedComparisons(t), 2 * k)
                          /\ CountOp(yc_soln.conds[q].cond, "and") = 2 * k - 1
                /\ k = 0 => g = {}

C4_Witness ==
    /\ pc = "tree"
    /\ trees # <<>>
    /\ AllStatic(tree)
    /\ Len(SubIterations(tree)) = MaxSub
    /\ \E m \in 1..Len(emitted) :
          /\ emitted[m].tree = Len(trees)
          /\ emitted[m].ret # None
          /\ GuardsOf(emitted[m].ret) # {}
    /\ \E m \in 1..Len(emitted) : emitted[m].tree = Len(trees) /\ emitted[m].ret = None

RegistryGrids == {f \in DOMAIN mapper : f \in Arrays \cup ConstantFunctions}

\* C5 (as amended): a failure ends the pass at once, with no registry
\* returned and no flow dependency registered; what the pass created before
\* the failure stays on the solution: every grid of the registry, every
\* equation emitted and its guard.
C5_Abort ==
    /\ (pc = "failed") = (err # "none")
    /\ pc = "failed" =>
        /\ err \in {"NotImplementedError", "AssertionError", "TypeError"}
        /\ returned = NoRegistry
        /\ yc_soln.deps = <<>>
        /\ \A f \in RegistryGrids :
              \E g \in 1..Len(yc_soln.grids) : yc_soln.grids[g] = mapper[f]
        /\ \A k \in 1..N_processed : processed[k].val <= yc_soln.neq
        /\ \A m \in 1..Len(emitted) :
              (emitted[m].ret # None /\ SubIterations(trees[emitted[m].tree]) # <<>>)
                  => GuardsOf(emitted[m].ret) # {}

\* C5 as stated: when the failure propagates the solution holds no grid, no
\* equation, no guard and no flow dependency of the pass, and no registry is
\* returned.
C5_Original ==
    pc = "failed" =>
        /\ yc_soln.grids = <<>>
        /\ yc_soln.neq = 0
        /\ yc_soln.conds = <<>>
        /\ yc_soln.deps = <<>>
        /\ returned = NoRegistry

C5_Witness ==
    /\ pc = "failed"
    /\ site = "build"
    /\ Len(trees) = 2
    /\ N_processed >= 2
    /\ yc_soln.grids # <<>>
    /\ yc_soln.conds # <<>>

\* a sub-region iteration of unknown offsets that is not both sequential and of
\* statically known extent
Unsupported(i) ==
    /\ i.is_Sub
    /\ ~i.static
    /\ ~(i.is_Sequential /\ i.extent > 0)

NonePassed ==
    trees # <<>> =>
        \A j \in 1..Len(tree.iters) : j < ii => ~Unsupported(tree.iters[j])

FailedAtUnsupported ==
    /\ pc = "failed"
    /\ site = "cond"
    /\ Unsupported(tree.iters[ii])

NothingTranslated == \A m \in 1..Len(emitted) : emitted[m].tree # Len(trees)

\* C6 (as amended): a sub-region iteration of unknown offsets that is not
\* sequential fails with NotImplementedError, whatever its extent; a sequential
\* one of unknown extent fails with the TypeError of the extent query; neither
\* is ever passed, and the failure comes before any expression of the tree is
\* translated.
C6_Unsupported ==
    /\ NonePassed
    /\ FailedAtUnsupported =>
        /\ err = IF tree.iters[ii].is_Sequential THEN "TypeError"
                                                 ELSE "NotImplementedError"
        /\ NothingTranslated

\* C6 as stated: every such iteration fails with NotImplementedError.
C6_Original ==
    /\ NonePassed
    /\ FailedAtUnsupported => (err = "NotImplementedError" /\ NothingTranslated)

C6_Witness ==
    /\ FailedAtUnsupported
    /\ ~tree.iters[ii].is_Sequential
    /\ tree.iters[ii].extent = 0
    /\ err = "NotImplementedError"
    /\ Len(trees) = 2
    /\ emitted # <<>>

DeclaredAxes(f) ==
    IF f \in ConstantFunctions THEN <<>>
    ELSE IF f = "u" THEN <<N("step_index", "t", 0, <<>>), N("domain_index", "x", 0, <<>>)>>
    ELSE <<N("domain_index", "x", 0, <<>>), N("misc_index", "m", 0, <<>>)>>

GridsOnce ==
    /\ \A a, b \in 1..Len(yc_soln.grids) :
          a # b => yc_soln.grids[a].name # yc_soln.grids[b].name
    /\ \A a \in 1..Len(yc_soln.grids) :
          LET g == yc_soln.grids[a]
          IN  /\ g.name \in Arrays \cup ConstantFunctions
              /\ g.args = DeclaredAxes(g.name)
              /\ g.name \in DOMAIN mapper
              /\ mapper[g.name] = g
    /\ Len(yc_soln.grids) = Cardinality(RegistryGrids)

RegistryGrows ==
    \A f \in DOMAIN mapper : f \in DOMAIN mapper' /\ mapper'[f] = mapper[f]

\* C9: a grid is created at most once per array or Constant function, with the
\* declared axes, and an entry of the registry is never replaced or removed:
\* the registry only grows.
C9_Registry == []GridsOnce /\ [][RegistryGrows]_vars

C9_Witness ==
    /\ pc = "done"
    /\ Len(trees) = 2
    /\ {"c", "u", "v", "r0"} \subseteq DOMAIN returned
    /\ N_processed >= 3

RECURSIVE TemporariesIn(_)
TemporariesIn(e) ==
    (IF e.kind = "Symbol" /\ e.name \in Temporaries THEN {e.name} ELSE {})
        \cup UNION {TemporariesIn(e.args[k]) : k \in 1..Len(e.args)}

Binds(e) == IF IsBinding(e) THEN {e.args[1].name} ELSE {}
References(e) == IF IsBinding(e) THEN TemporariesIn(e.args[2]) ELSE TemporariesIn(e)

Batch == Flatten([k \in 1..Len(trees) |-> trees[k].exprs])

\* every temporary is bound by at most one expression of the batch, and every
\* reference to it comes after its binding
WellFormedTemporaries ==
    /\ \A p, q \in 1..Len(Batch) : p # q => Binds(Batch[p]) \cap Binds(Batch[q]) = {}
    /\ \A p \in 1..Len(Batch) : \A r \in References(Batch[p]) :
          \E q \in 1..(p - 1) : r \in Binds(Batch[q])

\* C10: a pass over a batch in which every temporary is bound once, before its
\* references, never fails with an assertion of make_yask_ast.
C10_NoInvariantViolation ==
    WellFormedTemporaries => ~(pc = "failed" /\ site = "build" /\ err = "AssertionError")

\* ------------------------------------------------ claims on make_yask_ast
IsReference(e) == e.kind = "Symbol" /\ e.name \in Temporaries

C3_Step ==
    LET e == last_expr'
        r == last'
        pre == ast_mapper
    IN  calls' = calls + 1 =>
          /\ (IsReference(e) /\ e.name \notin DOMAIN pre) =>
                (r.err = "AssertionError" /\ ast_mapper' = pre)
          /\ (IsBinding(e) /\ e.args[1].name \in DOMAIN pre) =>
                (r.err = "AssertionError" /\ ast_mapper' = pre)
          /\ (IsReference(e) /\ e.name \in DOMAIN pre) =>
                (r.err = "none" /\ r.ret = pre[e.name] /\ r.ret # None)
          /\ (IsBinding(e) /\ e.args[1].name \notin DOMAIN pre) =>
                /\ r.ret = None
                /\ r.err = "none" =>
                      /\ e.args[1].name \in DOMAIN ast_mapper'
                      /\ ast_mapper'[e.args[1].name] =
                            make_yask_ast(e.args[2], ast_soln, pre).ret
                /\ r.err # "none" =>
                      /\ r.err = "AssertionError"
                      /\ ~(TemporariesIn(e.args[2]) \subseteq DOMAIN pre)
          /\ (~IsBinding(e) /\ e.kind = "Equality") =>
                IF TemporariesIn(e) \subseteq DOMAIN pre
                THEN /\ r.err = "none"
                     /\ r.ret.args[2].args[2] =
                            N("multiply", "", 0, <<pre["r0"], pre["r1"]>>)
                ELSE r.err = "AssertionError"
          /\ \A f \in DOMAIN pre \cap Temporaries :
                f \in DOMAIN ast_mapper' /\ ast_mapper'[f] = pre[f]

\* C3: on one registry, a reference to a temporary that is not bound fails
\* with AssertionError, and so does a binding of a temporary that is bound; a
\* reference to a bound temporary returns the very node its binding stored,
\* which nothing replaces, and a binding returns no node.
C3_Temporaries == [][C3_Step]_vars

C3_Witness ==
    /\ last_expr = Symbol("r1")
    /\ last.err = "none"
    /\ last.ret = N("add", "", 0, <<N("const", "", 2, <<>>), N("const", "", 1, <<>>)>>)

RECURSIVE IsPower(_, _, _)
\* node is b * (b * (... * b)), k factors
IsPower(node, b, k) ==
    IF k = 1 THEN node = b
    ELSE /\ node.op = "multiply"
         /\ node.args[1] = b
         /\ IsPower(node.args[2], b, k - 1)

BaseNode(b) ==
    IF b.name \in ConstantFunctions THEN N("grid_point", b.name, 0, <<>>)
    ELSE IF b.name \in Temporaries THEN ast_mapper[b.name]
    ELSE N("domain_index", b.name, 0, <<>>)

\* C7: Pow(b, e) of an atomic b: e >= 1 gives e-1 multiply nodes over e copies
\* of b, right-associated; e <= -1 gives one divide node of 1 over the
\* (-e)-fold product; e = 0 gives the constant 1 without a failure; an exponent
\* that is no integer fails with NotImplementedError.
C7_Pow ==
    last_expr.kind = "Pow" =>
        LET b == last_expr.args[1]
            exp == last_expr.args[2]
            e == exp.val
        IN  IF exp.kind # "Integer" THEN last.err = "NotImplementedError"
            ELSE IF e = 0 THEN last.err = "none" /\ last.ret = N("const", "", 1, <<>>)
            ELSE (b.name \in Temporaries => b.name \in DOMAIN ast_mapper) =>
                /\ last.err = "none"
                /\ IF e >= 1
                   THEN /\ IsPower(last.ret, BaseNode(b), e)
                        /\ CountOp(last.ret, "multiply") = e - 1
                   ELSE /\ last.ret.op = "divide"
                        /\ last.ret.args[1] = N("const", "", 1, <<>>)
                        /\ IsPower(last.ret.args[2], BaseNode(b), -e)
                        /\ CountOp(last.ret, "multiply") = -e - 1
                        /\ CountOp(last.ret, "divide") = 1

C7_Witness ==
    /\ last_expr = Pow(Symbol("c"), Integer(-MaxPow))
    /\ last.err = "none"
    /\ last.ret.op = "divide"
    /\ CountOp(last.ret, "multiply") = MaxPow - 1

====
